---------------------------- MODULE Spec2Model ----------------------------
(***************************************************************************)
(* A model of the attendance ledger of src/attendance.py (class            *)
(* AttendanceSystem): the four in-memory tables, the JSON documents they   *)
(* are saved to, and one action per public method.                         *)
(*                                                                         *)
(* Representation.                                                         *)
(*  - A Python dict is a TLA+ function; {} is the function with the empty  *)
(*    domain.                                                              *)
(*  - A string that the code parses, formats or compares as text (a date,  *)
(*    a timestamp) is the sequence of its characters.  Other strings       *)
(*    (names, statuses, notes, dict keys) are TLA+ strings.                *)
(*  - None, where a date string may stand, is the value None below.        *)
(*  - A float rounded to 2 decimals (attendance_rate) is the integer       *)
(*    number of hundredths: 3333 stands for 33.33.                         *)
(***************************************************************************)
EXTENDS Integers, Sequences, FiniteSets, TLC

VARIABLES
    students,            \* self.students
    attendance_records,  \* self.attendance_records
    reports,             \* self.reports
    config,              \* self.config
    disk,                \* the four JSON documents of data_directory
    backups,             \* data_directory/backups/<date>/
    exports,             \* data_directory/exports/
    clock,               \* datetime.datetime.now(), in days from the first day
    last,                \* the last call: its name, arguments and return value,
                         \* and what it found in the tables (pre)
    nops                 \* the number of calls made so far

vars == <<nops, clock, students, attendance_records, reports, config, disk,
          backups, exports, last>>

tables == <<students, attendance_records, reports, config>>

-----------------------------------------------------------------------------
(* Bounds of the model. *)

MaxOps == 2

MaxClock == 1

-----------------------------------------------------------------------------
(* Python values. *)

None == <<"None">>

EmptyDict == <<>>

\* dict.update / a loop of d[key] = value: the keys of e win.
DictUpdate(d, e) ==
    [k \in (DOMAIN d) \cup (DOMAIN e) |-> IF k \in DOMAIN e THEN e[k] ELSE d[k]]

\* d[key] = value
DictSet(d, key, value) ==
    [k \in (DOMAIN d) \cup {key} |-> IF k = key THEN value ELSE d[k]]

\* d.get(key, default)
DictGet(d, key, default) == IF key \in DOMAIN d THEN d[key] ELSE default

\* The elements of a list.
Elems(seq) == {seq[i] : i \in DOMAIN seq}

\* The element of a set of one element.
Only(S) == CHOOSE x \in S : TRUE

-----------------------------------------------------------------------------
(* Dates: datetime.strptime(s, "%Y-%m-%d"), strftime("%Y-%m-%d"),          *)
(* timedelta(days=n) and the comparison of datetimes.  A parsed date is    *)
(* its proleptic Gregorian ordinal (date.toordinal()).                     *)

DigitChars == <<"0", "1", "2", "3", "4", "5", "6", "7", "8", "9">>

IsDigit(c) == \E i \in DOMAIN DigitChars : DigitChars[i] = c

DigitVal(c) == (CHOOSE i \in DOMAIN DigitChars : DigitChars[i] = c) - 1

IsLeap(y) == (y % 4 = 0) /\ ((y % 100 # 0) \/ (y % 400 = 0))

DaysInMonth(y, m) ==
    IF m = 2 THEN (IF IsLeap(y) THEN 29 ELSE 28)
    ELSE IF m \in {4, 6, 9, 11} THEN 30 ELSE 31

DaysBeforeYear(y) ==
    (y - 1) * 365 + ((y - 1) \div 4) - ((y - 1) \div 100) + ((y - 1) \div 400)

RECURSIVE DaysBeforeMonth(_, _)
DaysBeforeMonth(y, m) ==
    IF m = 1 THEN 0 ELSE DaysBeforeMonth(y, m - 1) + DaysInMonth(y, m - 1)

ToOrdinal(y, m, d) == DaysBeforeYear(y) + DaysBeforeMonth(y, m) + d

\* The years the model's dates fall in.
Years == 2024 .. 2026

FromOrdinal(n) ==
    LET y == CHOOSE yy \in Years :
                 DaysBeforeYear(yy) < n /\ n <= DaysBeforeYear(yy + 1)
        r == n - DaysBeforeYear(y)
        m == CHOOSE mm \in 1 .. 12 :
                 DaysBeforeMonth(y, mm) < r
                 /\ r <= DaysBeforeMonth(y, mm) + DaysInMonth(y, mm)
    IN  [year |-> y, month |-> m, day |-> r - DaysBeforeMonth(y, m)]

\* The month field of the format: 1[0-2]|0[1-9]|[1-9]
MonthField(t) ==
    \/ Len(t) = 2 /\ t[1] = "1" /\ t[2] \in {"0", "1", "2"}
    \/ Len(t) = 2 /\ t[1] = "0" /\ IsDigit(t[2]) /\ t[2] # "0"
    \/ Len(t) = 1 /\ IsDigit(t[1]) /\ t[1] # "0"

\* The day field of the format: 3[01]|[12]\d|0[1-9]|[1-9]| [1-9]
DayField(t) ==
    \/ Len(t) = 2 /\ t[1] = "3" /\ t[2] \in {"0", "1"}
    \/ Len(t) = 2 /\ t[1] \in {"1", "2"} /\ IsDigit(t[2])
    \/ Len(t) = 2 /\ t[1] \in {"0", " "} /\ IsDigit(t[2]) /\ t[2] # "0"
    \/ Len(t) = 1 /\ IsDigit(t[1]) /\ t[1] # "0"

\* The number a field of digits (and a leading space) stands for.
RECURSIVE FieldVal(_)
FieldVal(t) ==
    IF t = <<>> THEN 0
    ELSE LET c == t[Len(t)]
         IN  (IF IsDigit(c) THEN DigitVal(c) ELSE 0)
             + 10 * FieldVal(SubSeq(t, 1, Len(t) - 1))

\* strptime(s, "%Y-%m-%d"): the whole of s must be \d\d\d\d-<month>-<day> and
\* name a day of the calendar; anything else raises ValueError (ok = FALSE).
Strptime(s) ==
    LET Shape(lm) ==
            /\ Len(s) >= 6 + lm + 1
            /\ \A i \in 1 .. 4 : IsDigit(s[i])
            /\ s[5] = "-"
            /\ MonthField(SubSeq(s, 6, 5 + lm))
            /\ s[6 + lm] = "-"
            /\ DayField(SubSeq(s, 7 + lm, Len(s)))
        Fits == {lm \in {1, 2} : Shape(lm)}
    IN  IF Fits = {} THEN [ok |-> FALSE, ord |-> 0]
        ELSE LET lm == CHOOSE x \in Fits : TRUE
                 y  == FieldVal(SubSeq(s, 1, 4))
                 m  == FieldVal(SubSeq(s, 6, 5 + lm))
                 d  == FieldVal(SubSeq(s, 7 + lm, Len(s)))
             IN  IF y >= 1 /\ d <= DaysInMonth(y, m)
                 THEN [ok |-> TRUE, ord |-> ToOrdinal(y, m, d)]
                 ELSE [ok |-> FALSE, ord |-> 0]

\* Two decimal digits, and four.
Pad2(n) == <<DigitChars[(n \div 10) + 1], DigitChars[(n % 10) + 1]>>

Pad4(n) == Pad2(n \div 100) \o Pad2(n % 100)

\* date.strftime("%Y-%m-%d") of the date with ordinal n.
Strftime(n) ==
    LET dt == FromOrdinal(n)
    IN  Pad4(dt.year) \o <<"-">> \o Pad2(dt.month) \o <<"-">> \o Pad2(dt.day)

-----------------------------------------------------------------------------
(* Text: str.lower, str.startswith and the order sorted() puts strings in. *)

UpperChars ==
    <<"A", "B", "C", "D", "E", "F", "G", "H", "I", "J", "K", "L", "M",
      "N", "O", "P", "Q", "R", "S", "T", "U", "V", "W", "X", "Y", "Z">>

LowerChars ==
    <<"a", "b", "c", "d", "e", "f", "g", "h", "i", "j", "k", "l", "m",
      "n", "o", "p", "q", "r", "s", "t", "u", "v", "w", "x", "y", "z">>

\* s.lower()
Lower(s) ==
    [i \in DOMAIN s |->
        IF \E j \in DOMAIN UpperChars : UpperChars[j] = s[i]
        THEN LowerChars[CHOOSE j \in DOMAIN UpperChars : UpperChars[j] = s[i]]
        ELSE s[i]]

\* s.startswith(prefix)
StartsWith(s, prefix) ==
    Len(s) >= Len(prefix) /\ SubSeq(s, 1, Len(prefix)) = prefix

\* ord(c) of the characters of a date key
Ord(c) == IF c = " " THEN 32 ELSE IF c = "-" THEN 45 ELSE 48 + DigitVal(c)

\* s < t, of str
RECURSIVE StrLess(_, _)
StrLess(s, t) ==
    IF t = <<>> THEN FALSE
    ELSE IF s = <<>> THEN TRUE
    ELSE IF Head(s) = Head(t) THEN StrLess(Tail(s), Tail(t))
    ELSE Ord(Head(s)) < Ord(Head(t))

\* sorted(list(S)) of a set of str
RECURSIVE Sorted(_)
Sorted(S) ==
    IF S = {}
    THEN <<>>
    ELSE LET least == CHOOSE x \in S : \A y \in S : ~ StrLess(y, x)
         IN  <<least>> \o Sorted(S \ {least})

-----------------------------------------------------------------------------
(* The clock.  datetime.datetime.now() is 09:00:00 of the day that is      *)
(* clock days after the day the ledger of the model is constructed on,     *)
(* 2025-03-02.                                                             *)

FirstDay == ToOrdinal(2025, 3, 2)

TodayOrd(clk) == FirstDay + clk

\* The days of the earlier runs of the program: 2025-01-30, 2025-01-31,
\* 2025-02-28 and 2025-03-01.
EarlierDays == {-31, -30, -2, -1}

\* datetime.datetime.now().strftime("%Y-%m-%d"), for every day of the model
Calendar ==
    [clk \in EarlierDays \cup (0 .. MaxClock) |-> Strftime(TodayOrd(clk))]

Today(clk) == Calendar[clk]

\* datetime.datetime.now().strftime("%Y-%m-%d %H:%M:%S")
Now(clk) ==
    Today(clk) \o <<" ", "0", "9", ":", "0", "0", ":", "0", "0">>

-----------------------------------------------------------------------------
(* The storage.  A JSON document of the data directory is <<>> when the    *)
(* file does not exist and <<table>> when it holds table.                  *)

NoFile == <<>>

File(table) == <<table>>

\* __init__: the default of system_config.json
DefaultConfig ==
    [status_options        |-> <<"present", "absent", "late", "excused">>,
     default_status        |-> "absent",
     auto_backup           |-> TRUE,
     backup_frequency_days |-> 7,
     last_backup           |-> None]

\* The default of config.get("status_options", ...)
DefaultStatusOptions == <<"present", "absent", "late", "excused">>

\* _load_json_file
LoadJsonFile(file, default) == IF file = NoFile THEN default ELSE file[1]

\* _save_json_file of one of the four documents
SaveJsonFile(d, name, table) == [d EXCEPT ![name] = File(table)]

\* _create_backup(date_str): the four tables are copied under the date, then
\* last_backup is set and the configuration saved.
CreateBackup(st, date_str) ==
    LET cfg == DictSet(st.config, "last_backup", date_str)
    IN  [st EXCEPT
            !.backups = DictSet(st.backups, date_str,
                                [students           |-> st.students,
                                 attendance_records |-> st.attendance_records,
                                 reports            |-> st.reports,
                                 config             |-> st.config]),
            !.config  = cfg,
            !.disk    = SaveJsonFile(st.disk, "config", cfg)]

\* _check_auto_backup that takes a backup only when more days than the
\* interval have passed
CheckAutoBackup_StrictlyLater(st, clk) ==
    LET today       == Today(clk)
        last_backup == DictGet(st.config, "last_backup", None)
    IN  IF last_backup = None \/ last_backup = <<>>
        THEN CreateBackup(st, today)
        ELSE LET days_diff == Strptime(today).ord - Strptime(last_backup).ord
             IN  IF days_diff > DictGet(st.config, "backup_frequency_days", 7)
                 THEN CreateBackup(st, today)
                 ELSE st

\* _check_auto_backup
CheckAutoBackup(st, clk) ==
    LET today       == Today(clk)
        last_backup == DictGet(st.config, "last_backup", None)
    IN  IF last_backup = None \/ last_backup = <<>>
        THEN CreateBackup(st, today)
        ELSE LET days_diff == Strptime(today).ord - Strptime(last_backup).ord
             IN  IF days_diff >= DictGet(st.config, "backup_frequency_days", 7)
                 THEN CreateBackup(st, today)
                 ELSE st

\* __init__ on the data directory d with the backups bk, at time clk.
Construct(d, bk, clk) ==
    LET st == [students           |-> LoadJsonFile(d.students, EmptyDict),
               attendance_records |-> LoadJsonFile(d.attendance, EmptyDict),
               reports            |-> LoadJsonFile(d.reports, EmptyDict),
               config             |-> LoadJsonFile(d.config, DefaultConfig),
               disk               |-> d,
               backups            |-> bk]
    IN  IF DictGet(st.config, "auto_backup", TRUE)
        THEN CheckAutoBackup(st, clk)
        ELSE st

-----------------------------------------------------------------------------
(* The methods, as functions of the tables they read: each gives the       *)
(* return value and the tables it writes.                                  *)

\* add_student that returns failure for an id that exists, yet has merged the
\* call's data into the student
AddStudentResult_Merges(sts, student_id, name, additional_info, clk) ==
    LET student_data ==
            DictUpdate([name              |-> name,
                        registration_date |-> Today(clk),
                        status            |-> "active"],
                       additional_info)
    IN  IF student_id \in DOMAIN sts
        THEN [ret |-> FALSE,
              students |-> [sts EXCEPT ![student_id] = DictUpdate(@, student_data)]]
        ELSE [ret |-> TRUE, students |-> DictSet(sts, student_id, student_data)]

\* add_student
AddStudentResult(sts, student_id, name, additional_info, clk) ==
    IF student_id \in DOMAIN sts
    THEN [ret |-> FALSE, students |-> sts]
    ELSE LET student_data ==
                 DictUpdate([name              |-> name,
                             registration_date |-> Today(clk),
                             status            |-> "active"],
                            additional_info)
         IN  [ret |-> TRUE, students |-> DictSet(sts, student_id, student_data)]

\* update_student_info that puts update_data in the place of the student
UpdateStudentInfoResult_Replaces(sts, student_id, update_data) ==
    IF student_id \notin DOMAIN sts
    THEN [ret |-> FALSE, students |-> sts]
    ELSE [ret |-> TRUE, students |-> [sts EXCEPT ![student_id] = update_data]]

\* update_student_info
UpdateStudentInfoResult(sts, student_id, update_data) ==
    IF student_id \notin DOMAIN sts
    THEN [ret |-> FALSE, students |-> sts]
    ELSE [ret |-> TRUE,
          students |-> [sts EXCEPT ![student_id] = DictUpdate(@, update_data)]]

\* get_attendance_date_key
GetAttendanceDateKey(date, clk) == IF date = None THEN Today(clk) ELSE date

\* The statuses of a hard-coded list
StatusOptions_HardCoded(cfg) == DefaultStatusOptions

\* self.config.get("status_options", [...])
StatusOptions(cfg) == DictGet(cfg, "status_options", DefaultStatusOptions)

\* mark_attendance that keeps the record the key already has
MarkAttendanceResult_KeepsFirst(sts, att, cfg, student_id, date, status, notes, clk) ==
    LET date_key == GetAttendanceDateKey(date, clk)
    IN  IF student_id \notin DOMAIN sts
        THEN [ret |-> FALSE, attendance_records |-> att]
        ELSE IF status \notin Elems(StatusOptions(cfg))
        THEN [ret |-> FALSE, attendance_records |-> att]
        ELSE LET day == DictGet(att, date_key, EmptyDict)
                 rec == [status    |-> status,
                         timestamp |-> Now(clk),
                         notes     |-> notes]
             IN  [ret |-> TRUE,
                  attendance_records |->
                      IF student_id \in DOMAIN day THEN att
                      ELSE DictSet(att, date_key, DictSet(day, student_id, rec))]

\* mark_attendance that does not look the student up
MarkAttendanceResult_NoStudentCheck(sts, att, cfg, student_id, date, status, notes, clk) ==
    LET date_key == GetAttendanceDateKey(date, clk)
    IN  IF status \notin Elems(StatusOptions(cfg))
        THEN [ret |-> FALSE, attendance_records |-> att]
        ELSE LET day == DictGet(att, date_key, EmptyDict)
                 rec == [status    |-> status,
                         timestamp |-> Now(clk),
                         notes     |-> notes]
             IN  [ret |-> TRUE,
                  attendance_records |->
                      DictSet(att, date_key, DictSet(day, student_id, rec))]

\* mark_attendance that makes the entry of the date before it looks at the
\* student and the status
MarkAttendanceResult_EntryFirst(sts, att, cfg, student_id, date, status, notes, clk) ==
    LET date_key == GetAttendanceDateKey(date, clk)
        entered  == DictSet(att, date_key, DictGet(att, date_key, EmptyDict))
    IN  IF student_id \notin DOMAIN sts
        THEN [ret |-> FALSE, attendance_records |-> entered]
        ELSE IF status \notin Elems(StatusOptions(cfg))
        THEN [ret |-> FALSE, attendance_records |-> entered]
        ELSE LET rec == [status    |-> status,
                         timestamp |-> Now(clk),
                         notes     |-> notes]
             IN  [ret |-> TRUE,
                  attendance_records |->
                      DictSet(att, date_key,
                              DictSet(entered[date_key], student_id, rec))]

\* mark_attendance
MarkAttendanceResult(sts, att, cfg, student_id, date, status, notes, clk) ==
    LET date_key == GetAttendanceDateKey(date, clk)
    IN  IF student_id \notin DOMAIN sts
        THEN [ret |-> FALSE, attendance_records |-> att]
        ELSE IF status \notin Elems(StatusOptions(cfg))
        THEN [ret |-> FALSE, attendance_records |-> att]
        ELSE LET day == DictGet(att, date_key, EmptyDict)
                 rec == [status    |-> status,
                         timestamp |-> Now(clk),
                         notes     |-> notes]
             IN  [ret |-> TRUE,
                  attendance_records |->
                      DictSet(att, date_key, DictSet(day, student_id, rec))]

\* round(num / den * 100, 2) in hundredths: the nearest, a tie to the even.
Round2Percent(num, den) ==
    LET q == (num * 10000) \div den
        r == (num * 10000) % den
    IN  IF 2 * r > den THEN q + 1
        ELSE IF 2 * r = den THEN q + (q % 2)
        ELSE q

\* The counting of the statuses with a counter for every status a record has
StatusCounts_TalliesEveryStatus(cfg, records) ==
    [s \in Elems(StatusOptions(cfg)) \cup {records[k].status : k \in DOMAIN records} |->
        Cardinality({k \in DOMAIN records : records[k].status = s})]

\* The counting of the statuses: a zero for every configured status, then one
\* more for each record whose status is a key.
StatusCounts(cfg, records) ==
    [s \in Elems(StatusOptions(cfg)) |->
        Cardinality({k \in DOMAIN records : records[k].status = s})]

\* _generate_daily_report with the rate taken over the recorded students
DailyReport_RateOfRecorded(sts, att, cfg, date_key, clk) ==
    IF date_key \notin DOMAIN att
    THEN [date         |-> date_key,
          generated_at |-> Now(clk),
          message      |-> "No records for this date",
          stats        |-> EmptyDict]
    ELSE LET records           == att[date_key]
             total_students    == Cardinality(DOMAIN sts)
             recorded_students == Cardinality(DOMAIN records)
             status_counts     == StatusCounts(cfg, records)
             attendance_rate   ==
                 IF recorded_students > 0
                 THEN Round2Percent(DictGet(status_counts, "present", 0),
                                    recorded_students)
                 ELSE 0
         IN  [date              |-> date_key,
              generated_at      |-> Now(clk),
              total_students    |-> total_students,
              recorded_students |-> recorded_students,
              missing_records   |-> total_students - recorded_students,
              stats             |-> status_counts,
              attendance_rate   |-> attendance_rate]

\* _generate_daily_report: the report it builds
DailyReport(sts, att, cfg, date_key, clk) ==
    IF date_key \notin DOMAIN att
    THEN [date         |-> date_key,
          generated_at |-> Now(clk),
          message      |-> "No records for this date",
          stats        |-> EmptyDict]
    ELSE LET records           == att[date_key]
             total_students    == Cardinality(DOMAIN sts)
             recorded_students == Cardinality(DOMAIN records)
             status_counts     == StatusCounts(cfg, records)
             attendance_rate   ==
                 IF total_students > 0
                 THEN Round2Percent(DictGet(status_counts, "present", 0),
                                    total_students)
                 ELSE 0
         IN  [date              |-> date_key,
              generated_at      |-> Now(clk),
              total_students    |-> total_students,
              recorded_students |-> recorded_students,
              missing_records   |-> total_students - recorded_students,
              stats             |-> status_counts,
              attendance_rate   |-> attendance_rate]

\* _generate_daily_report: the report is cached under the date
GenerateDailyReport(sts, att, cfg, reps, date_key, clk) ==
    LET report == DailyReport(sts, att, cfg, date_key, clk)
    IN  [ret |-> report, reports |-> DictSet(reps, date_key, report)]

\* get_attendance_report that generates the report on every call
GetAttendanceReportResult_Regenerates(sts, att, cfg, reps, date, clk) ==
    GenerateDailyReport(sts, att, cfg, reps, GetAttendanceDateKey(date, clk), clk)

\* get_attendance_report that generates anew a cached report of no records
GetAttendanceReportResult_RefreshesMinimal(sts, att, cfg, reps, date, clk) ==
    LET date_key == GetAttendanceDateKey(date, clk)
    IN  IF date_key \in DOMAIN reps /\ "message" \notin DOMAIN reps[date_key]
        THEN [ret |-> reps[date_key], reports |-> reps]
        ELSE GenerateDailyReport(sts, att, cfg, reps, date_key, clk)

\* get_attendance_report
GetAttendanceReportResult(sts, att, cfg, reps, date, clk) ==
    LET date_key == GetAttendanceDateKey(date, clk)
    IN  IF date_key \in DOMAIN reps
        THEN [ret |-> reps[date_key], reports |-> reps]
        ELSE GenerateDailyReport(sts, att, cfg, reps, date_key, clk)

\* bulk_attendance that passes over a value that is neither a str nor a dict
\* without reporting it
BulkEntry_SkipsOtherShape(sts, cfg, acc, entry, date_key, clk) ==
    IF entry.kind \notin {"str", "dict"}
    THEN acc
    ELSE LET status == IF entry.kind = "str" THEN entry.d.status
                       ELSE DictGet(entry.d, "status", "present")
             notes  == IF entry.kind = "str" THEN ""
                       ELSE DictGet(entry.d, "notes", "")
             m      == MarkAttendanceResult(sts, acc.attendance_records, cfg,
                                            entry.student_id, date_key,
                                            status, notes, clk)
         IN  IF m.ret
             THEN [acc EXCEPT !.attendance_records = m.attendance_records,
                              !.success = Append(@, entry.student_id)]
             ELSE [acc EXCEPT !.failed = Append(@, entry.student_id)]

\* bulk_attendance that writes the record of an entry without looking the
\* student up
BulkEntry_WritesUnchecked(sts, cfg, acc, entry, date_key, clk) ==
    IF entry.kind \notin {"str", "dict"}
    THEN [acc EXCEPT !.failed = Append(@, entry.student_id)]
    ELSE LET status == IF entry.kind = "str" THEN entry.d.status
                       ELSE DictGet(entry.d, "status", "present")
             notes  == IF entry.kind = "str" THEN ""
                       ELSE DictGet(entry.d, "notes", "")
             m      == MarkAttendanceResult_NoStudentCheck(
                           sts, acc.attendance_records, cfg, entry.student_id,
                           date_key, status, notes, clk)
         IN  IF m.ret
             THEN [acc EXCEPT !.attendance_records = m.attendance_records,
                              !.success = Append(@, entry.student_id)]
             ELSE [acc EXCEPT !.failed = Append(@, entry.student_id)]

\* bulk_attendance, one entry of status_dict.items(): a value is a str
\* ("str", its status under d.status), a dict ("dict", d) or neither ("other").
BulkEntry(sts, cfg, acc, entry, date_key, clk) ==
    IF entry.kind \notin {"str", "dict"}
    THEN [acc EXCEPT !.failed = Append(@, entry.student_id)]
    ELSE LET status == IF entry.kind = "str" THEN entry.d.status
                       ELSE DictGet(entry.d, "status", "present")
             notes  == IF entry.kind = "str" THEN ""
                       ELSE DictGet(entry.d, "notes", "")
             m      == MarkAttendanceResult(sts, acc.attendance_records, cfg,
                                            entry.student_id, date_key,
                                            status, notes, clk)
         IN  IF m.ret
             THEN [acc EXCEPT !.attendance_records = m.attendance_records,
                              !.success = Append(@, entry.student_id)]
             ELSE [acc EXCEPT !.failed = Append(@, entry.student_id)]

\* bulk_attendance, the loop over the entries from the i-th on
RECURSIVE BulkLoop(_, _, _, _, _, _, _)
BulkLoop(sts, cfg, acc, status_dict, i, date_key, clk) ==
    IF i > Len(status_dict) THEN acc
    ELSE Only({BulkLoop(sts, cfg, a, status_dict, i + 1, date_key, clk) :
                 a \in {BulkEntry(sts, cfg, acc, status_dict[i], date_key, clk)}})

\* bulk_attendance that, like get_attendance_report, keeps a report that is
\* cached for the date
BulkAttendanceResult_KeepsCache(sts, att, cfg, reps, date, status_dict, clk) ==
    LET date_key == GetAttendanceDateKey(date, clk)
        acc == BulkLoop(sts, cfg,
                        [attendance_records |-> att,
                         success |-> <<>>, failed |-> <<>>],
                        status_dict, 1, date_key, clk)
    IN  [ret |-> [success |-> acc.success, failed |-> acc.failed],
         attendance_records |-> acc.attendance_records,
         reports |-> IF date_key \in DOMAIN reps \/ Len(status_dict) = 0
                     THEN reps
                     ELSE GenerateDailyReport(sts, acc.attendance_records, cfg,
                                              reps, date_key, clk).reports]

\* bulk_attendance
BulkAttendanceResult(sts, att, cfg, reps, date, status_dict, clk) ==
    LET date_key == GetAttendanceDateKey(date, clk)
        results  == [success |-> <<>>, failed |-> <<>>]
    IN  IF Len(status_dict) = 0
        THEN [ret |-> results, attendance_records |-> att, reports |-> reps]
        ELSE LET acc == BulkLoop(sts, cfg,
                                 [attendance_records |-> att,
                                  success |-> <<>>, failed |-> <<>>],
                                 status_dict, 1, date_key, clk)
                 g   == GenerateDailyReport(sts, acc.attendance_records, cfg,
                                            reps, date_key, clk)
             IN  [ret |-> [success |-> acc.success, failed |-> acc.failed],
                  attendance_records |-> acc.attendance_records,
                  reports |-> g.reports]

\* The dates strictly between the bounds
HistoryDates_Exclusive(att, student_id, start_ord, end_ord) ==
    {date_key \in DOMAIN att :
        /\ Strptime(date_key).ok
        /\ ~ (Strptime(date_key).ord <= start_ord
              \/ Strptime(date_key).ord >= end_ord)
        /\ student_id \in DOMAIN att[date_key]}

\* The dates of the history taken by comparing the keys as text, unparsed
HistoryDates_ComparesText(att, student_id, start_ord, end_ord) ==
    {date_key \in DOMAIN att :
        /\ ~ (StrLess(date_key, Strftime(start_ord))
              \/ StrLess(Strftime(end_ord), date_key))
        /\ student_id \in DOMAIN att[date_key]}

\* get_student_attendance_history: the dates of the records it keeps
HistoryDates(att, student_id, start_ord, end_ord) ==
    {date_key \in DOMAIN att :
        /\ Strptime(date_key).ok
        /\ ~ (Strptime(date_key).ord < start_ord
              \/ Strptime(date_key).ord > end_ord)
        /\ student_id \in DOMAIN att[date_key]}

\* get_student_attendance_history that tallies every record of the student,
\* those outside the range too
StudentAttendanceHistory_TalliesAll(sts, att, cfg, student_id, start_date, end_date, clk) ==
    IF student_id \notin DOMAIN sts
    THEN [error |-> <<"Student ID ", student_id, " not found.">>]
    ELSE LET end    == IF end_date = None \/ end_date = <<>>
                       THEN Today(clk) ELSE end_date
             nostart == start_date = None \/ start_date = <<>>
         IN  IF ~ Strptime(end).ok
             THEN [exception |-> "ValueError"]
             ELSE LET start == IF nostart
                               THEN Strftime(Strptime(end).ord - 30)
                               ELSE start_date
                  IN  IF ~ Strptime(start).ok
                      THEN [exception |-> "ValueError"]
                      ELSE LET dates == HistoryDates(att, student_id,
                                                     Strptime(start).ord,
                                                     Strptime(end).ord)
                               every == {k \in DOMAIN att :
                                            student_id \in DOMAIN att[k]}
                               history == [k \in dates |-> att[k][student_id]]
                               total_days == Cardinality(dates)
                               status_counts ==
                                   StatusCounts(cfg, [k \in every |->
                                                         att[k][student_id]])
                               attendance_rate ==
                                   IF total_days > 0
                                   THEN Round2Percent(
                                            DictGet(status_counts, "present", 0),
                                            total_days)
                                   ELSE 0
                           IN  [student_id      |-> student_id,
                                name            |-> sts[student_id]["name"],
                                start_date      |-> start,
                                end_date        |-> end,
                                total_days      |-> total_days,
                                stats           |-> status_counts,
                                attendance_rate |-> attendance_rate,
                                history         |-> history]

\* get_student_attendance_history; a ValueError of strptime on start_date or
\* end_date leaves the method (ret.exception).
StudentAttendanceHistory(sts, att, cfg, student_id, start_date, end_date, clk) ==
    IF student_id \notin DOMAIN sts
    THEN [error |-> <<"Student ID ", student_id, " not found.">>]
    ELSE LET end    == IF end_date = None \/ end_date = <<>>
                       THEN Today(clk) ELSE end_date
             nostart == start_date = None \/ start_date = <<>>
         IN  IF ~ Strptime(end).ok
             THEN [exception |-> "ValueError"]
             ELSE LET start == IF nostart
                               THEN Strftime(Strptime(end).ord - 30)
                               ELSE start_date
                  IN  IF ~ Strptime(start).ok
                      THEN [exception |-> "ValueError"]
                      ELSE LET dates == HistoryDates(att, student_id,
                                                     Strptime(start).ord,
                                                     Strptime(end).ord)
                               history == [k \in dates |-> att[k][student_id]]
                               total_days == Cardinality(dates)
                               status_counts == StatusCounts(cfg, history)
                               attendance_rate ==
                                   IF total_days > 0
                                   THEN Round2Percent(
                                            DictGet(status_counts, "present", 0),
                                            total_days)
                                   ELSE 0
                           IN  [student_id      |-> student_id,
                                name            |-> sts[student_id]["name"],
                                start_date      |-> start,
                                end_date        |-> end,
                                total_days      |-> total_days,
                                stats           |-> status_counts,
                                attendance_rate |-> attendance_rate,
                                history         |-> history]

\* update_system_config
UpdateSystemConfigResult(cfg, config_updates) ==
    [ret |-> TRUE, config |-> DictUpdate(cfg, config_updates)]

\* The exports directory: absent, or its files by name; the name of
\* attendance_<period>.<ext> is <<period, ext>>.
NoExports == <<>>

ExportDir(files) == <<files>>

\* A row of the CSV export that leaves the cell of a date without a record
\* of the student empty
CsvRow_LeavesBlank(student_id, student_info, all_dates, monthly_data) ==
    <<student_id, DictGet(student_info, "name", "Unknown")>>
      \o [i \in 1 .. Len(all_dates) |->
             IF student_id \in DOMAIN monthly_data[all_dates[i]]
             THEN monthly_data[all_dates[i]][student_id].status
             ELSE ""]

\* export_monthly_report: the row of a student in the CSV export
CsvRow(student_id, student_info, all_dates, monthly_data) ==
    <<student_id, DictGet(student_info, "name", "Unknown")>>
      \o [i \in 1 .. Len(all_dates) |->
             IF all_dates[i] \in DOMAIN monthly_data
                  /\ student_id \in DOMAIN monthly_data[all_dates[i]]
             THEN monthly_data[all_dates[i]][student_id].status
             ELSE "N/A"]

\* export_monthly_report that writes the JSON export for a format it does not
\* know
ExportMonthlyReportResult_FallsBackToJson(sts, att, exp, year, month, format_type, clk) ==
    LET month_str == Pad4(year) \o <<"-">> \o Pad2(month)
        dates     == {k \in DOMAIN att : StartsWith(k, month_str)}
        monthly_data == [k \in dates |-> att[k]]
        monthly_students ==
            [i \in UNION {DOMAIN att[k] : k \in dates} |->
                DictGet(sts, i, [name |-> "Unknown"])]
        export_data == [period       |-> month_str,
                        generated_at |-> Now(clk),
                        students     |-> monthly_students,
                        attendance   |-> monthly_data]
        files == IF exp = NoExports THEN EmptyDict ELSE exp[1]
    IN  [ret     |-> [path |-> <<"exports", <<month_str, "json">>>>],
         exports |-> ExportDir(DictSet(files, <<month_str, "json">>,
                                       export_data))]

\* export_monthly_report.  The period is f"{year}-{month:02d}", of a year of
\* four digits and a month of at most two.  The rows of the CSV export are in
\* the order of the dict monthly_students, which a function does not carry:
\* the export is its header and the set of its rows.
ExportMonthlyReportResult(sts, att, exp, year, month, format_type, clk) ==
    LET month_str == Pad4(year) \o <<"-">> \o Pad2(month)
        dates     == {k \in DOMAIN att : StartsWith(k, month_str)}
        monthly_data == [k \in dates |-> att[k]]
        monthly_students ==
            [i \in UNION {DOMAIN att[k] : k \in dates} |->
                DictGet(sts, i, [name |-> "Unknown"])]
        export_data == [period       |-> month_str,
                        generated_at |-> Now(clk),
                        students     |-> monthly_students,
                        attendance   |-> monthly_data]
        files == IF exp = NoExports THEN EmptyDict ELSE exp[1]
        all_dates == Sorted(dates)
    IN  IF Lower(format_type) = <<"j", "s", "o", "n">>
        THEN [ret     |-> [path |-> <<"exports", <<month_str, "json">>>>],
              exports |-> ExportDir(DictSet(files, <<month_str, "json">>,
                                            export_data))]
        ELSE IF Lower(format_type) = <<"c", "s", "v">>
        THEN [ret     |-> [path |-> <<"exports", <<month_str, "csv">>>>],
              exports |->
                  ExportDir(DictSet(files, <<month_str, "csv">>,
                      [header |-> <<"Student ID", "Name">> \o all_dates,
                       rows   |-> {CsvRow(i, monthly_students[i], all_dates,
                                          monthly_data) :
                                     i \in DOMAIN monthly_students}]))]
        ELSE [ret     |-> [error |-> <<"Unsupported format: ", format_type>>],
              exports |-> ExportDir(files)]

-----------------------------------------------------------------------------
(* The methods, as functions of the ledger they are called on: st is the   *)
(* tables, the documents and the backups; each gives the return value and  *)
(* the ledger after the call, every _save_json_file included.              *)

\* mark_attendance that also generates the report of the date
DoMarkAttendance_Regenerates(st, student_id, date, status, notes, clk) ==
    LET r == MarkAttendanceResult(st.students, st.attendance_records, st.config,
                                  student_id, date, status, notes, clk)
        g == GenerateDailyReport(st.students, r.attendance_records, st.config,
                                 st.reports, GetAttendanceDateKey(date, clk), clk)
    IN  [ret |-> r.ret,
         st  |-> IF r.ret
                 THEN [st EXCEPT
                          !.attendance_records = r.attendance_records,
                          !.reports = g.reports,
                          !.disk = SaveJsonFile(
                                       SaveJsonFile(st.disk, "attendance",
                                                    r.attendance_records),
                                       "reports", g.reports)]
                 ELSE st]

DoAddStudent(st, student_id, name, additional_info, clk) ==
    LET r == AddStudentResult(st.students, student_id, name, additional_info, clk)
    IN  [ret |-> r.ret,
         st  |-> [st EXCEPT
                     !.students = r.students,
                     !.disk = IF r.ret
                              THEN SaveJsonFile(@, "students", r.students)
                              ELSE @]]

DoUpdateStudentInfo(st, student_id, update_data) ==
    LET r == UpdateStudentInfoResult(st.students, student_id, update_data)
    IN  [ret |-> r.ret,
         st  |-> [st EXCEPT
                     !.students = r.students,
                     !.disk = IF r.ret
                              THEN SaveJsonFile(@, "students", r.students)
                              ELSE @]]

\* mark_attendance that writes the record and does not save the document
DoMarkAttendance_NotSaved(st, student_id, date, status, notes, clk) ==
    LET r == MarkAttendanceResult(st.students, st.attendance_records, st.config,
                                  student_id, date, status, notes, clk)
    IN  [ret |-> r.ret,
         st  |-> [st EXCEPT !.attendance_records = r.attendance_records]]

DoMarkAttendance(st, student_id, date, status, notes, clk) ==
    LET r == MarkAttendanceResult(st.students, st.attendance_records, st.config,
                                  student_id, date, status, notes, clk)
    IN  [ret |-> r.ret,
         st  |-> [st EXCEPT
                     !.attendance_records = r.attendance_records,
                     !.disk = IF r.ret
                              THEN SaveJsonFile(@, "attendance",
                                                r.attendance_records)
                              ELSE @]]

\* The attendance document is saved by every mark that succeeds, the reports
\* document by _generate_daily_report.
DoBulkAttendance(st, date, status_dict, clk) ==
    Only({[ret |-> r.ret,
           st  |-> [st EXCEPT
                       !.attendance_records = r.attendance_records,
                       !.reports = r.reports,
                       !.disk = [@ EXCEPT
                                    !.attendance =
                                        IF Len(r.ret.success) > 0
                                        THEN File(r.attendance_records) ELSE @,
                                    !.reports =
                                        IF Len(status_dict) > 0
                                        THEN File(r.reports) ELSE @]]] :
          r \in {BulkAttendanceResult(st.students, st.attendance_records,
                                      st.config, st.reports, date,
                                      status_dict, clk)}})

DoGetAttendanceReport(st, date, clk) ==
    LET r == GetAttendanceReportResult(st.students, st.attendance_records,
                                       st.config, st.reports, date, clk)
    IN  [ret |-> r.ret,
         st  |-> [st EXCEPT
                     !.reports = r.reports,
                     !.disk = IF GetAttendanceDateKey(date, clk)
                                   \in DOMAIN st.reports
                              THEN @
                              ELSE SaveJsonFile(@, "reports", r.reports)]]

DoUpdateSystemConfig(st, config_updates) ==
    LET r == UpdateSystemConfigResult(st.config, config_updates)
    IN  [ret |-> r.ret,
         st  |-> [st EXCEPT
                     !.config = r.config,
                     !.disk = SaveJsonFile(st.disk, "config", r.config)]]

-----------------------------------------------------------------------------
(* The data directories the ledger is constructed on: an empty one, and    *)
(* the ones earlier runs of the program have left.  The first constructed  *)
(* its ledger on an empty directory on 2025-01-30 and added two students;  *)
(* on 2025-01-31 it marked the first present, asked for the report of the  *)
(* day and marked the second absent; the program was started once more on  *)
(* 2025-02-28.  The second is the first with two more calls on 2025-03-01. *)

EmptyDir ==
    [students |-> NoFile, attendance |-> NoFile, reports |-> NoFile,
     config |-> NoFile]

\* The calls of the earlier run, in order, each with its day.
EarlierCalls ==
    <<[op |-> "add_student", student_id |-> "S001", name |-> "John Smith",
       clk |-> -31],
      [op |-> "add_student", student_id |-> "S002", name |-> "Emma Johnson",
       clk |-> -31],
      [op |-> "mark_attendance", student_id |-> "S001", status |-> "present",
       notes |-> "", clk |-> -30],
      [op |-> "get_attendance_report", clk |-> -30],
      [op |-> "mark_attendance", student_id |-> "S002", status |-> "absent",
       notes |-> "flu", clk |-> -30],
      [op |-> "__init__", clk |-> -2]>>

\* The ledger after the call c on the ledger st.
AfterCall(st, c) ==
    CASE c.op = "__init__" -> Construct(st.disk, st.backups, c.clk)
      [] c.op = "add_student" ->
             DoAddStudent(st, c.student_id, c.name, EmptyDict, c.clk).st
      [] c.op = "mark_attendance" ->
             DoMarkAttendance(st, c.student_id, None, c.status, c.notes,
                              c.clk).st
      [] c.op = "get_attendance_report" ->
             DoGetAttendanceReport(st, DictGet(c, "date", None), c.clk).st

RECURSIVE AfterCalls(_, _)
AfterCalls(st, calls) ==
    IF calls = <<>>
    THEN st
    ELSE Only({AfterCalls(s, Tail(calls)) : s \in {AfterCall(st, Head(calls))}})

\* The ledger that the calls leave, made on a ledger constructed on the empty
\* directory on 2025-01-30.
RunOf(calls) ==
    Only({AfterCalls(st, calls) : st \in {Construct(EmptyDir, EmptyDict, -31)}})

\* The earlier run: its calls, the last of them the start of the program on
\* 2025-02-28 on what the others have left.
EarlierRun == RunOf(EarlierCalls)

\* The calls of the day before the first day of the model, 2025-03-01: the
\* first student is marked present, and the report of the day after is asked
\* for.
RecentCalls ==
    <<[op |-> "mark_attendance", student_id |-> "S001", status |-> "present",
       notes |-> "", clk |-> -1],
      [op |-> "get_attendance_report",
       date |-> <<"2", "0", "2", "5", "-", "0", "3", "-", "0", "2">>,
       clk |-> -1]>>

\* The earlier run, gone on with on 2025-03-01.
RecentRun == RunOf(EarlierCalls \o RecentCalls)

InitialStorage ==
    {[dir |-> EmptyDir, backups |-> EmptyDict]}
      \cup {[dir |-> st.disk, backups |-> st.backups] :
                st \in {EarlierRun, RecentRun}}

\* The ledger of the state.
Ledger ==
    [students           |-> students,
     attendance_records |-> attendance_records,
     reports            |-> reports,
     config             |-> config,
     disk               |-> disk,
     backups            |-> backups]

\* The ledger of the next state is st; the exports directory is left alone.
Becomes(st) ==
    /\ students' = st.students
    /\ attendance_records' = st.attendance_records
    /\ reports' = st.reports
    /\ config' = st.config
    /\ disk' = st.disk
    /\ backups' = st.backups
    /\ exports' = exports

Init ==
    /\ \E s \in InitialStorage :
          \E st \in {Construct(s.dir, s.backups, 0)} :
              /\ students = st.students
              /\ attendance_records = st.attendance_records
              /\ reports = st.reports
              /\ config = st.config
              /\ disk = st.disk
              /\ backups = st.backups
    /\ exports = NoExports
    /\ clock = 0
    /\ last = [op |-> "__init__", args |-> EmptyDict, ret |-> TRUE,
               pre |-> EmptyDict]
    /\ nops = 0

-----------------------------------------------------------------------------
(* The inputs of the calls. *)

D_0131 == <<"2", "0", "2", "5", "-", "0", "1", "-", "3", "1">>

D_0230 == <<"2", "0", "2", "5", "-", "0", "2", "-", "3", "0">>

D_0302 == <<"2", "0", "2", "5", "-", "0", "3", "-", "0", "2">>

StudentIds == {"S001", "S003"}

Names == {"Michael Brown"}

\* additional_info of add_student (None and {} behave alike)
AdditionalInfos == {EmptyDict, [grade |-> "10B", status |-> "guest"]}

\* update_data of update_student_info
UpdateDatas == {[status |-> "inactive", contact |-> "m.b@email.com"]}

\* 2025-01-4: a day strptime takes, written without the 0
D_014 == <<"2", "0", "2", "5", "-", "0", "1", "-", "4">>

\* date of mark_attendance: today, two days of the calendar, and a string that
\* names no day
Dates == {None, D_0131, D_014, D_0230}

\* date of bulk_attendance and get_attendance_report
ReportDates == {None, D_0131}

\* status and notes of mark_attendance
StatusNotes ==
    {[status |-> "present", notes |-> ""],
     [status |-> "absent", notes |-> "flu"],
     [status |-> "sick", notes |-> ""]}

\* status_dict of bulk_attendance, in the order of its items
Entry(student_id, kind, d) == [student_id |-> student_id, kind |-> kind, d |-> d]

StatusDicts ==
    {<<>>,
     <<Entry("S001", "str", [status |-> "present"]),
       Entry("S002", "dict", [status |-> "absent", notes |-> "flu"])>>,
     <<Entry("S003", "str", [status |-> "present"]),
       Entry("S001", "str", [status |-> "sick"]),
       Entry("S002", "other", [status |-> "absent"])>>,
     <<Entry("S002", "dict", [notes |-> "left early"])>>}

\* start_date and end_date of get_student_attendance_history
Ranges ==
    {[start |-> None, end |-> None],
     [start |-> None, end |-> D_0302],
     [start |-> D_0131, end |-> D_0131],
     [start |-> D_0230, end |-> None]}

\* year and month of export_monthly_report
Periods == {[year |-> 2025, month |-> 1], [year |-> 2025, month |-> 3]}

\* format_type of export_monthly_report
Formats == {<<"j", "s", "o", "n">>, <<"C", "S", "V">>, <<"x", "m", "l">>}

\* config_updates of update_system_config
ConfigUpdates ==
    {[status_options |-> <<"present", "absent", "late", "excused", "sick">>],
     [status_options |-> <<"absent", "late">>, default_status |-> "late"],
     [backup_frequency_days |-> 2],
     [backup_frequency_days |-> 0],
     [auto_backup |-> FALSE, backup_frequency_days |-> 2]}

-----------------------------------------------------------------------------
(* The calls. *)

\* The passing of a day between two calls.
Tick ==
    /\ clock < MaxClock
    /\ clock' = clock + 1
    /\ UNCHANGED <<students, attendance_records, reports, config, disk,
                   backups, exports, last, nops>>

\* The record of (date_key, student_id), if there is one: <<record>> or <<>>.
RecordOf(att, date_key, student_id) ==
    IF date_key \in DOMAIN att /\ student_id \in DOMAIN att[date_key]
    THEN <<att[date_key][student_id]>>
    ELSE <<>>

\* The record of a call; a call is made while nops < MaxOps.
Call(op, args, ret, pre) ==
    /\ last' = [op |-> op, args |-> args, ret |-> ret, pre |-> pre]
    /\ nops' = nops + 1
    /\ clock' = clock

\* The program is started again: a ledger is constructed on the data
\* directory as the calls have left it, and takes the place of the ledger.
Construction ==
    /\ nops < MaxOps
    /\ \E st \in {Construct(disk, backups, clock)} :
           /\ Call("__init__", EmptyDict, TRUE,
                   [last_backup |-> DictGet(LoadJsonFile(disk.config, DefaultConfig),
                                            "last_backup", None)])
           /\ Becomes(st)

AddStudent ==
    /\ nops < MaxOps
    /\ \E student_id \in StudentIds, name \in Names,
          additional_info \in AdditionalInfos :
           \E r \in {DoAddStudent(Ledger, student_id, name, additional_info, clock)} :
               /\ Call("add_student",
                       [student_id |-> student_id, name |-> name,
                        additional_info |-> additional_info], r.ret, EmptyDict)
               /\ Becomes(r.st)

UpdateStudentInfo ==
    /\ nops < MaxOps
    /\ \E student_id \in StudentIds, update_data \in UpdateDatas :
           \E r \in {DoUpdateStudentInfo(Ledger, student_id, update_data)} :
               /\ Call("update_student_info",
                       [student_id |-> student_id, update_data |-> update_data],
                       r.ret, EmptyDict)
               /\ Becomes(r.st)

MarkAttendance ==
    /\ nops < MaxOps
    /\ \E student_id \in StudentIds, date \in Dates, sn \in StatusNotes :
           \E r \in {DoMarkAttendance(Ledger, student_id, date, sn.status,
                                      sn.notes, clock)} :
               /\ Call("mark_attendance",
                       [student_id |-> student_id, date |-> date,
                        status |-> sn.status, notes |-> sn.notes], r.ret,
                       [previous |-> RecordOf(attendance_records,
                                              GetAttendanceDateKey(date, clock),
                                              student_id)])
               /\ Becomes(r.st)

BulkAttendance ==
    /\ nops < MaxOps
    /\ \E date \in ReportDates, status_dict \in StatusDicts :
           \E r \in {DoBulkAttendance(Ledger, date, status_dict, clock)} :
               /\ Call("bulk_attendance",
                       [date |-> date, status_dict |-> status_dict], r.ret,
                       [replaced |->
                           LET d == GetAttendanceDateKey(date, clock)
                           IN  /\ d \in DOMAIN reports
                               /\ d \in DOMAIN r.st.reports
                               /\ reports[d] # r.st.reports[d]])
               /\ Becomes(r.st)

GetAttendanceReport ==
    /\ nops < MaxOps
    /\ \E date \in ReportDates :
           \E r \in {DoGetAttendanceReport(Ledger, date, clock)} :
               /\ Call("get_attendance_report", [date |-> date], r.ret, EmptyDict)
               /\ Becomes(r.st)

GetStudentAttendanceHistory ==
    /\ nops < MaxOps
    /\ \E student_id \in StudentIds, range \in Ranges :
           /\ Call("get_student_attendance_history",
                   [student_id |-> student_id, start_date |-> range.start,
                    end_date |-> range.end],
                   StudentAttendanceHistory(students, attendance_records, config,
                                            student_id, range.start, range.end,
                                            clock),
                   EmptyDict)
           /\ UNCHANGED <<students, attendance_records, reports, config, disk,
                          backups, exports>>

ExportMonthlyReport ==
    /\ nops < MaxOps
    /\ \E period \in Periods, format_type \in Formats :
           \E r \in {ExportMonthlyReportResult(students, attendance_records,
                                               exports, period.year, period.month,
                                               format_type, clock)} :
               /\ Call("export_monthly_report",
                       [year |-> period.year, month |-> period.month,
                        format_type |-> format_type], r.ret, EmptyDict)
               /\ exports' = r.exports
               /\ UNCHANGED <<students, attendance_records, reports, config,
                              disk, backups>>

UpdateSystemConfig ==
    /\ nops < MaxOps
    /\ \E config_updates \in ConfigUpdates :
           \E r \in {DoUpdateSystemConfig(Ledger, config_updates)} :
               /\ Call("update_system_config",
                       [config_updates |-> config_updates], r.ret, EmptyDict)
               /\ Becomes(r.st)

Next ==
    \/ Tick
    \/ Construction
    \/ AddStudent
    \/ UpdateStudentInfo
    \/ MarkAttendance
    \/ BulkAttendance
    \/ GetAttendanceReport
    \/ GetStudentAttendanceHistory
    \/ ExportMonthlyReport
    \/ UpdateSystemConfig

Spec == Init /\ [][Next]_vars

-----------------------------------------------------------------------------
(* The properties. *)

\* The step of the call op.
Step(op) == nops' = nops + 1 /\ last'.op = op

\* The date key of the last call.
LastKey == GetAttendanceDateKey(last.args.date, clock)

\* A report but for the time it was generated at.
Undated(report) == [report EXCEPT !.generated_at = <<>>]

\* The report cached for date_key is not the one the tables give now.
Stale(date_key) ==
    /\ date_key \in DOMAIN reports
    /\ Undated(reports[date_key])
         # Undated(DailyReport(students, attendance_records, config, date_key,
                               clock))

\* C1, as stated: after every bulk_attendance call for a date d, whatever the
\* mapping (the empty one too), reports[d] is the report computed from the
\* tables as they are when the call returns.
C1_EveryBulkRegenerates ==
    [][Step("bulk_attendance") =>
          LET d == GetAttendanceDateKey(last'.args.date, clock')
          IN  /\ d \in DOMAIN reports'
              /\ reports'[d] = DailyReport(students', attendance_records',
                                           config', d, clock')]_vars

\* C1, amended: after every bulk_attendance call for a date d with a mapping
\* that is not empty, whatever the outcomes of its entries, reports[d] is the
\* report computed from the tables as they are when the call returns, also
\* when another report was cached for d before.
C1_NonEmptyBulkRegenerates ==
    [][(Step("bulk_attendance") /\ Len(last'.args.status_dict) > 0) =>
          LET d == GetAttendanceDateKey(last'.args.date, clock')
          IN  /\ d \in DOMAIN reports'
              /\ reports'[d] = DailyReport(students', attendance_records',
                                           config', d, clock')]_vars

\* A bulk_attendance call has replaced the report that was cached for its date.
C1_Witness ==
    /\ last.op = "bulk_attendance"
    /\ Len(last.args.status_dict) > 0
    /\ last.pre.replaced

\* C2: a mark_attendance call, successful or not, leaves the reports table as
\* it was: no report is changed, added or removed.
C2_MarkLeavesReports ==
    [][Step("mark_attendance") => reports' = reports]_vars

\* A successful mark_attendance call on a date whose cached report is now stale.
C2_Witness ==
    /\ last.op = "mark_attendance"
    /\ last.ret
    /\ Stale(LastKey)

\* C3: get_attendance_report(d) with a report cached for d returns it and
\* changes no table and no document; with none cached it computes the report
\* from the tables, caches it and returns it.
C3_ReportServedFromCache ==
    [][Step("get_attendance_report") =>
          LET d == GetAttendanceDateKey(last'.args.date, clock)
          IN  IF d \in DOMAIN reports
              THEN /\ last'.ret = reports[d]
                   /\ UNCHANGED <<students, attendance_records, reports,
                                  config, disk, backups>>
              ELSE /\ last'.ret = DailyReport(students, attendance_records,
                                              config, d, clock)
                   /\ reports' = DictSet(reports, d, last'.ret)
                   /\ UNCHANGED <<students, attendance_records, config>>]_vars

\* get_attendance_report has returned a cached report that the tables no
\* longer give.
C3_Witness ==
    /\ last.op = "get_attendance_report"
    /\ Stale(LastKey)
    /\ last.ret = reports[LastKey]

\* C4: mark_attendance checks the status against the configuration of the
\* moment of the call: for a student that exists it succeeds exactly when the
\* status is in config.status_options as update_system_config last left it,
\* and a call that fails writes no record.
C4_StatusCheckedAgainstCurrentConfig ==
    [][(Step("mark_attendance") /\ last'.args.student_id \in DOMAIN students) =>
          /\ last'.ret = (last'.args.status \in Elems(config.status_options))
          /\ ~ last'.ret =>
                 attendance_records' = attendance_records /\ disk' = disk]_vars

\* A mark with a status that the default configuration does not have has
\* succeeded: the status had been added.
C4_Witness ==
    /\ last.op = "mark_attendance"
    /\ last.ret
    /\ last.args.status \notin Elems(DefaultStatusOptions)

\* Every (date key, student id) that has a record before or after a step.
RecordKeys ==
    {<<k, i>> : k \in (DOMAIN attendance_records) \cup (DOMAIN attendance_records'),
                i \in {"S001", "S002", "S003"}}

\* C5: a successful mark_attendance leaves, for its (date, student), the one
\* record with the status and the notes of this call, whatever record the key
\* had before, and leaves the records of all other keys as they were.
C5_LaterMarkReplaces ==
    [][(Step("mark_attendance") /\ last'.ret) =>
          LET d == GetAttendanceDateKey(last'.args.date, clock)
              s == last'.args.student_id
          IN  /\ RecordOf(attendance_records', d, s)
                   = <<[status    |-> last'.args.status,
                        timestamp |-> Now(clock),
                        notes     |-> last'.args.notes]>>
              /\ \A key \in RecordKeys :
                    key # <<d, s>> =>
                        RecordOf(attendance_records', key[1], key[2])
                          = RecordOf(attendance_records, key[1], key[2])]_vars

\* A successful mark on a key that had a record with another status and
\* other notes.
C5_Witness ==
    /\ last.op = "mark_attendance"
    /\ last.ret
    /\ last.pre.previous # <<>>
    /\ last.pre.previous[1].status # last.args.status
    /\ last.pre.previous[1].notes # last.args.notes

\* C6: marking a student id that is not in the students table fails and
\* creates no record: mark_attendance returns failure and leaves the
\* attendance table as it was; as an entry of bulk_attendance the id is
\* reported failed, no record of it appears, and a call whose entries are all
\* of unknown students leaves the attendance table as it was.
C6_UnknownStudentNeverMarked ==
    [][/\ (Step("mark_attendance")
             /\ last'.args.student_id \notin DOMAIN students) =>
              ~ last'.ret /\ attendance_records' = attendance_records
       /\ Step("bulk_attendance") =>
              LET sd == last'.args.status_dict
                  unknown == {i \in DOMAIN sd :
                                 sd[i].student_id \notin DOMAIN students}
              IN  /\ \A i \in unknown :
                        /\ sd[i].student_id \in Elems(last'.ret.failed)
                        /\ sd[i].student_id \notin Elems(last'.ret.success)
                        /\ \A k \in DOMAIN attendance_records' :
                              RecordOf(attendance_records', k, sd[i].student_id)
                                = RecordOf(attendance_records, k, sd[i].student_id)
                  /\ unknown = DOMAIN sd =>
                         attendance_records' = attendance_records]_vars

\* A bulk_attendance call with an entry of an unknown student and an entry
\* that succeeded.
C6_Witness ==
    /\ last.op = "bulk_attendance"
    /\ \E i \in DOMAIN last.args.status_dict :
          last.args.status_dict[i].student_id \notin DOMAIN students
    /\ Len(last.ret.success) > 0

\* C7: add_student with an id that exists returns failure and leaves the
\* students table (and its document) as it was.
C7_DuplicateAddRejected ==
    [][(Step("add_student") /\ last'.args.student_id \in DOMAIN students) =>
          /\ ~ last'.ret
          /\ students' = students
          /\ disk' = disk]_vars

\* A rejected add_student whose name and additional attributes are not those
\* of the student that exists.
C7_Witness ==
    /\ last.op = "add_student"
    /\ ~ last.ret
    /\ students[last.args.student_id]["name"] # last.args.name
    /\ \E k \in DOMAIN last.args.additional_info :
          k \notin DOMAIN students[last.args.student_id]

\* The step generates the report of date key d anew, and d has records.
Generates(d) ==
    /\ \/ Step("bulk_attendance") /\ Len(last'.args.status_dict) > 0
       \/ Step("get_attendance_report") /\ d \notin DOMAIN reports
    /\ d = GetAttendanceDateKey(last'.args.date, clock)
    /\ d \in DOMAIN attendance_records'

\* The records of a day that have the status.
WithStatus(day, status) == {i \in DOMAIN day : day[i].status = status}

\* h hundredths is num / den x 100 rounded to 2 decimals.
IsPercentOf(h, num, den) ==
    /\ 2 * (h * den - num * 10000) <= den
    /\ 2 * (num * 10000 - h * den) <= den

\* The figures of a report generated from the tables; present is the count
\* its rate is taken of.
HasFigures(report, sts, day, present) ==
    /\ {"total_students", "recorded_students", "missing_records",
        "attendance_rate"} \subseteq DOMAIN report
    /\ report.total_students = Cardinality(DOMAIN sts)
    /\ report.recorded_students = Cardinality(DOMAIN day)
    /\ report.missing_records = report.total_students - report.recorded_students
    /\ IF Cardinality(DOMAIN sts) = 0
       THEN report.attendance_rate = 0
       ELSE IsPercentOf(report.attendance_rate, present, Cardinality(DOMAIN sts))

\* The example: 3 students, one marked present, one absent, one not marked.
IsExample(sts, day) ==
    /\ Cardinality(DOMAIN sts) = 3
    /\ Cardinality(DOMAIN day) = 2
    /\ Cardinality(WithStatus(day, "present")) = 1
    /\ Cardinality(WithStatus(day, "absent")) = 1

ShowsExample(report) ==
    /\ {"total_students", "recorded_students", "missing_records",
        "attendance_rate"} \subseteq DOMAIN report
    /\ report.total_students = 3
    /\ report.recorded_students = 2
    /\ report.missing_records = 1
    /\ report.attendance_rate = 3333

\* C8, as stated: a report generated for a date that has records carries
\* total_students, recorded_students, missing_records = total - recorded, and
\* attendance_rate = the number of the date's 'present' records /
\* total_students x 100 rounded to 2 decimals (0 without students); 3 students
\* with one present, one absent, one not marked give 3, 2, 1 and 33.33.
C8_RateOfPresentRecords ==
    [][\A d \in DOMAIN attendance_records' :
          Generates(d) =>
              LET day == attendance_records'[d]
              IN  /\ HasFigures(reports'[d], students', day,
                                Cardinality(WithStatus(day, "present")))
                  /\ IsExample(students', day) => ShowsExample(reports'[d])]_vars

\* C8, amended: as stated when 'present' is a configured status; when it is
\* not, no record counts as present and the rate is 0.
C8_RateOfCountedPresent ==
    [][\A d \in DOMAIN attendance_records' :
          Generates(d) =>
              LET day == attendance_records'[d]
                  counted == "present" \in Elems(config'.status_options)
              IN  /\ HasFigures(reports'[d], students', day,
                                IF counted
                                THEN Cardinality(WithStatus(day, "present"))
                                ELSE 0)
                  /\ (IsExample(students', day) /\ counted) =>
                         ShowsExample(reports'[d])]_vars

\* A bulk_attendance call has generated the report of the example.
C8_Witness ==
    /\ last.op = "bulk_attendance"
    /\ Len(last.args.status_dict) > 0
    /\ LastKey \in DOMAIN attendance_records
    /\ IsExample(students, attendance_records[LastKey])
    /\ ShowsExample(reports[LastKey])

\* The status and the notes an entry of status_dict stands for.
EntryStatus(e) ==
    IF e.kind = "str" THEN e.d.status ELSE DictGet(e.d, "status", "present")

EntryNotes(e) == IF e.kind = "str" THEN "" ELSE DictGet(e.d, "notes", "")

\* C9: bulk_attendance over a mapping that is not empty returns success and
\* failed lists that hold each id of the mapping exactly once between them;
\* an id is in success exactly when its value is a str or a dict (a dict
\* without status standing for 'present'), the student exists and the status
\* is configured; the record of every successful entry is written, and a
\* failed entry leaves its key as it was.
C9_BulkPartitions ==
    [][(Step("bulk_attendance") /\ Len(last'.args.status_dict) > 0) =>
          LET sd  == last'.args.status_dict
              d   == GetAttendanceDateKey(last'.args.date, clock)
              res == last'.ret
              Ok(e) == /\ e.kind \in {"str", "dict"}
                       /\ e.student_id \in DOMAIN students
                       /\ EntryStatus(e) \in Elems(config.status_options)
          IN  /\ Elems(res.success) \cup Elems(res.failed)
                   = {sd[i].student_id : i \in DOMAIN sd}
              /\ Elems(res.success) \cap Elems(res.failed) = {}
              /\ Len(res.success) + Len(res.failed) = Len(sd)
              /\ \A i \in DOMAIN sd :
                    LET e == sd[i]
                    IN  /\ (e.student_id \in Elems(res.success)) = Ok(e)
                        /\ RecordOf(attendance_records', d, e.student_id)
                             = IF Ok(e)
                               THEN <<[status    |-> EntryStatus(e),
                                       timestamp |-> Now(clock),
                                       notes     |-> EntryNotes(e)]>>
                               ELSE RecordOf(attendance_records, d,
                                             e.student_id)]_vars

\* A bulk_attendance call in which an entry succeeded and an entry failed.
C9_Witness ==
    /\ last.op = "bulk_attendance"
    /\ Len(last.ret.success) > 0
    /\ Len(last.ret.failed) > 0
    /\ \A i \in DOMAIN last.ret.success :
          RecordOf(attendance_records, LastKey, last.ret.success[i]) # <<>>

D_0130 == <<"2", "0", "2", "5", "-", "0", "1", "-", "3", "0">>

D_0303 == <<"2", "0", "2", "5", "-", "0", "3", "-", "0", "3">>

\* No date is given.
NoDate(date) == date = None \/ date = <<>>

\* C10: for a student that exists and a range of dates,
\* get_student_attendance_history returns as history exactly the student's
\* records whose key parses as a date d with start <= d <= end, end being
\* today and start the day 30 days before end when not given: on 2025-03-02
\* the default range takes in 2025-01-31 and 2025-03-02, on 2025-03-03 it
\* leaves out 2025-01-31, and a range ending 2025-03-02 leaves out 2025-03-03.
C10_HistoryRangeInclusive ==
    [][(Step("get_student_attendance_history")
          /\ last'.args.student_id \in DOMAIN students) =>
          LET s     == last'.args.student_id
              a     == last'.args
              end   == IF NoDate(a.end_date) THEN Today(clock) ELSE a.end_date
              from  == IF NoDate(a.start_date)
                       THEN Strptime(end).ord - 30
                       ELSE Strptime(a.start_date).ord
              mine  == {k \in DOMAIN attendance_records :
                           s \in DOMAIN attendance_records[k]}
              h     == last'.ret.history
          IN  (Strptime(end).ok /\ (NoDate(a.start_date) \/ Strptime(a.start_date).ok))
              => /\ "history" \in DOMAIN last'.ret
                 /\ DOMAIN h = {k \in mine :
                                   /\ Strptime(k).ok
                                   /\ from <= Strptime(k).ord
                                   /\ Strptime(k).ord <= Strptime(end).ord}
                 /\ \A k \in DOMAIN h \cap mine : h[k] = attendance_records[k][s]
                 /\ (NoDate(a.start_date) /\ NoDate(a.end_date) /\ clock = 0) =>
                        DOMAIN h \cap {D_0130, D_0131, D_0302, D_0303}
                          = mine \cap {D_0131, D_0302}
                 /\ (NoDate(a.start_date) /\ NoDate(a.end_date) /\ clock = 1) =>
                        DOMAIN h \cap {D_0130, D_0131, D_0302, D_0303}
                          = mine \cap {D_0302, D_0303}
                 /\ (NoDate(a.start_date) /\ a.end_date = D_0302) =>
                        DOMAIN h \cap {D_0130, D_0131, D_0302, D_0303}
                          = mine \cap {D_0131, D_0302}]_vars

\* A history that holds a record of the first day of its range and leaves out
\* a record of the day after its last.
C10_Witness ==
    /\ last.op = "get_student_attendance_history"
    /\ last.args.start_date = None
    /\ last.args.end_date = D_0302
    /\ "history" \in DOMAIN last.ret
    /\ DOMAIN last.ret.history = {D_0131}
    /\ D_0303 \in DOMAIN attendance_records
    /\ last.args.student_id \in DOMAIN attendance_records[D_0303]

C11_EmptyHistory ==
    /\ last.op = "get_student_attendance_history"
    /\ last.args.start_date = last.args.end_date
    /\ "history" \in DOMAIN last.ret
    /\ last.ret.history = EmptyDict

\* The files of the exports directory.
ExportFiles(exp) == IF exp = NoExports THEN EmptyDict ELSE exp[1]

\* The period of the arguments of an export_monthly_report call.
PeriodOf(args) == Pad4(args.year) \o <<"-">> \o Pad2(args.month)

\* C12: export_monthly_report with a format that is neither 'json' nor 'csv'
\* in any letter case returns an error string and no path, raises nothing,
\* writes and changes no export file, and leaves the four tables and their
\* documents as they were.
C12_UnsupportedFormatRejected ==
    [][(Step("export_monthly_report")
          /\ Lower(last'.args.format_type)
                \notin {<<"j", "s", "o", "n">>, <<"c", "s", "v">>}) =>
          /\ DOMAIN last'.ret = {"error"}
          /\ ExportFiles(exports') = ExportFiles(exports)
          /\ tables' = tables
          /\ disk' = disk
          /\ backups' = backups]_vars

\* An export in a format that is not known, of a month that has records, after
\* an export that wrote a file.
C12_Witness ==
    /\ last.op = "export_monthly_report"
    /\ last.args.format_type = <<"x", "m", "l">>
    /\ "error" \in DOMAIN last.ret
    /\ \E k \in DOMAIN attendance_records : StartsWith(k, PeriodOf(last.args))
    /\ ExportFiles(exports) # EmptyDict

\* The CSV export of the call has the dates of the month that have records as
\* its columns, one row per student with a record in the month, and in each
\* cell the status of the student's record of the date, or 'N/A'; Before is
\* the order its columns are in.
CsvExportIs(Before(_, _)) ==
    LET period == PeriodOf(last'.args)
        dates  == {k \in DOMAIN attendance_records : StartsWith(k, period)}
        ids    == UNION {DOMAIN attendance_records[k] : k \in dates}
        file   == ExportFiles(exports')[<<period, "csv">>]
        cols   == SubSeq(file.header, 3, Len(file.header))
    IN  /\ DOMAIN last'.ret = {"path"}
        /\ SubSeq(file.header, 1, 2) = <<"Student ID", "Name">>
        /\ Elems(cols) = dates
        /\ Len(cols) = Cardinality(dates)
        /\ \A i, j \in DOMAIN cols : i < j => Before(cols[i], cols[j])
        /\ {row[1] : row \in file.rows} = ids
        /\ Cardinality(file.rows) = Cardinality(ids)
        /\ \A row \in file.rows :
              /\ Len(row) = Len(file.header)
              /\ \A i \in DOMAIN cols :
                    row[i + 2]
                      = IF row[1] \in DOMAIN attendance_records[cols[i]]
                        THEN attendance_records[cols[i]][row[1]].status
                        ELSE "N/A"

\* The day of a is before the day of b; of keys that name no day, the text.
DayBefore(a, b) ==
    IF Strptime(a).ok /\ Strptime(b).ok
    THEN Strptime(a).ord < Strptime(b).ord
    ELSE StrLess(a, b)

\* C13, as stated: the CSV export of a month has one column per date with
\* records in the month, in ascending order of the dates, one row per student
\* with a record in the month, and in each cell the student's status of the
\* date or 'N/A'.
C13_ColumnsInDateOrder ==
    [][(Step("export_monthly_report")
          /\ Lower(last'.args.format_type) = <<"c", "s", "v">>) =>
          CsvExportIs(DayBefore)]_vars

\* C13, amended: the columns are the date keys of the month in ascending
\* order of their text, which is the order of the dates for keys written
\* YYYY-MM-DD in full.
C13_ColumnsInTextOrder ==
    [][(Step("export_monthly_report")
          /\ Lower(last'.args.format_type) = <<"c", "s", "v">>) =>
          CsvExportIs(StrLess)]_vars

\* A CSV export of a month with records on two dates, with a row of a student
\* that has its status under the first and 'N/A' under the second.
C13_Witness ==
    /\ last.op = "export_monthly_report"
    /\ "path" \in DOMAIN last.ret
    /\ <<PeriodOf(last.args), "csv">> \in DOMAIN ExportFiles(exports)
    /\ LET file == ExportFiles(exports)[<<PeriodOf(last.args), "csv">>]
       IN  /\ Len(file.header) = 4
           /\ \E row \in file.rows :
                 /\ row[3] \notin {"N/A", ""}
                 /\ row[4] = "N/A"
                 /\ row[1] \in DOMAIN attendance_records[file.header[3]]
                 /\ row[1] \notin DOMAIN attendance_records[file.header[4]]

\* The tables a ledger constructed on the documents d loads.
Loaded(d) ==
    [students           |-> LoadJsonFile(d.students, EmptyDict),
     attendance_records |-> LoadJsonFile(d.attendance, EmptyDict),
     reports            |-> LoadJsonFile(d.reports, EmptyDict),
     config             |-> LoadJsonFile(d.config, DefaultConfig)]

\* A backup is due for a ledger that loads the configuration cfg on the day
\* clk: auto-backup is on, and no last backup is recorded or the days from it
\* to today are at least the interval.
BackupDue(cfg, clk) ==
    /\ DictGet(cfg, "auto_backup", TRUE)
    /\ \/ NoDate(DictGet(cfg, "last_backup", None))
       \/ TodayOrd(clk) - Strptime(cfg.last_backup).ord
            >= DictGet(cfg, "backup_frequency_days", 7)

\* C14: the construction of a ledger takes a backup exactly when one is due;
\* it then writes the four tables as loaded under today's date, no other
\* snapshot, and sets last_backup to today; when none is due it leaves the
\* backups and the configuration as they are.  No other call changes the
\* backups, and none but an update_system_config that names it changes
\* last_backup.
C14_BackupExactlyWhenDue ==
    [][/\ Step("__init__") =>
             IF BackupDue(Loaded(disk).config, clock)
             THEN /\ backups' = DictSet(backups, Today(clock), Loaded(disk))
                  /\ config' = DictSet(Loaded(disk).config, "last_backup",
                                       Today(clock))
                  /\ disk'.config = File(config')
             ELSE /\ backups' = backups
                  /\ config' = Loaded(disk).config
                  /\ disk' = disk
       /\ ~ Step("__init__") =>
             /\ backups' = backups
             /\ ~ (Step("update_system_config")
                     /\ "last_backup" \in DOMAIN last'.args.config_updates)
                  => DictGet(config', "last_backup", None)
                       = DictGet(config, "last_backup", None)]_vars

\* A construction has taken a backup on the very day the interval has elapsed,
\* beside the backups of earlier days.
C14_Witness ==
    /\ last.op = "__init__"
    /\ nops > 0
    /\ ~ NoDate(last.pre.last_backup)
    /\ config.backup_frequency_days > 0
    /\ TodayOrd(clock) - Strptime(last.pre.last_backup).ord
         = config.backup_frequency_days
    /\ config.last_backup = Today(clock)
    /\ Today(clock) \in DOMAIN backups
    /\ backups[Today(clock)].students = students
    /\ DOMAIN backups # {Today(clock)}

\* A construction with a backup due by the days and auto-backup off.
C14_DisabledWitness ==
    /\ last.op = "__init__"
    /\ nops > 0
    /\ ~ config.auto_backup
    /\ TodayOrd(clock) - Strptime(config.last_backup).ord
         >= config.backup_frequency_days
    /\ Today(clock) \notin DOMAIN backups

\* C15: once the snapshot of a date is written, no call and no construction
\* changes or removes it.
C15_SnapshotsNeverChange ==
    [][\A d \in DOMAIN backups :
          d \in DOMAIN backups' /\ backups'[d] = backups[d]]_vars

\* A configuration but for last_backup.
SansLastBackup(cfg) == [k \in DOMAIN cfg \ {"last_backup"} |-> cfg[k]]

\* C16: in every state each document, loaded (an absent one as its default),
\* is the table in memory, so that a ledger constructed on the data directory
\* has the students, attendance records and reports of this one, and its
\* configuration but for last_backup, which differs only when a backup is due.
C16_TablesPersisted ==
    /\ Loaded(disk) = [students           |-> students,
                       attendance_records |-> attendance_records,
                       reports            |-> reports,
                       config             |-> config]
    /\ LET st == Construct(disk, backups, clock)
       IN  /\ st.students = students
           /\ st.attendance_records = attendance_records
           /\ st.reports = reports
           /\ SansLastBackup(st.config) = SansLastBackup(config)
           /\ ~ BackupDue(config, clock) => st.config = config

\* A bulk_attendance call has written records and a report, after another
\* call, on a day a construction would take a backup and change last_backup.
C16_Witness ==
    /\ last.op = "bulk_attendance"
    /\ nops > 1
    /\ Len(last.ret.success) > 0
    /\ disk.attendance = File(attendance_records)
    /\ disk.reports = File(reports)
    /\ LastKey \in DOMAIN reports
    /\ BackupDue(config, clock)
    /\ Construct(disk, backups, clock).config # config

\* C17: the ids of the students table change only by an add_student call that
\* succeeds, which adds the id of the call and removes none;
\* update_student_info on an id that is not known returns failure and changes
\* nothing; on a known id it sets the fields it names in that student, keeps
\* the student's other fields and every other student, and leaves the
\* attendance, reports and configuration tables as they were.
C17_StudentIdsStable ==
    [][/\ DOMAIN students' # DOMAIN students =>
             /\ Step("add_student")
             /\ last'.ret
             /\ last'.args.student_id \notin DOMAIN students
             /\ DOMAIN students' = DOMAIN students \cup {last'.args.student_id}
       /\ Step("update_student_info") =>
             LET id  == last'.args.student_id
                 upd == last'.args.update_data
             IN  IF id \notin DOMAIN students
                 THEN /\ ~ last'.ret
                      /\ tables' = tables
                      /\ disk' = disk
                 ELSE /\ last'.ret
                      /\ DOMAIN students'[id] = DOMAIN students[id] \cup DOMAIN upd
                      /\ \A k \in DOMAIN upd : students'[id][k] = upd[k]
                      /\ \A k \in DOMAIN students[id] \ DOMAIN upd :
                            students'[id][k] = students[id][k]
                      /\ \A other \in DOMAIN students \ {id} :
                            students'[other] = students[other]
                      /\ attendance_records' = attendance_records
                      /\ reports' = reports
                      /\ config' = config]_vars

\* The first call, an update_student_info, has set a field the student had
\* and one it had not, beside a student it has not touched.
C17_Witness ==
    /\ last.op = "update_student_info"
    /\ last.ret
    /\ nops = 1
    /\ LET id == last.args.student_id
       IN  /\ students[id]["status"] = "inactive"
           /\ "contact" \in DOMAIN students[id]
           /\ students[id]["name"] = "John Smith"
           /\ "registration_date" \in DOMAIN students[id]
           /\ DOMAIN students # {id}


\* The sum of the values of a dict of numbers.
RECURSIVE SumOf(_)
SumOf(counts) ==
    IF DOMAIN counts = {} THEN 0
    ELSE LET k == CHOOSE x \in DOMAIN counts : TRUE
         IN  counts[k] + SumOf([x \in DOMAIN counts \ {k} |-> counts[x]])

\* The records of a day whose status is one of the configured statuses.
Configured(day, cfg) ==
    {i \in DOMAIN day : day[i].status \in Elems(StatusOptions(cfg))}

\* C18: a freshly generated report of a date with records has one stats key
\* per status configured at that time, each counting the date's records with
\* that status (zero when none has it); recorded_students counts every record
\* of the date, and the counters sum to the records whose status is configured.
C18_StatsPerConfiguredStatus ==
    [][\A d \in DOMAIN reports' :
          Generates(d) =>
              LET day    == attendance_records'[d]
                  report == reports'[d]
              IN  /\ DOMAIN report.stats = Elems(StatusOptions(config'))
                  /\ \A s \in DOMAIN report.stats :
                         report.stats[s] = Cardinality(WithStatus(day, s))
                  /\ report.recorded_students = Cardinality(DOMAIN day)
                  /\ SumOf(report.stats) = Cardinality(Configured(day, config'))]_vars

\* A bulk call has regenerated the report of a date that holds a record whose
\* status is no longer configured, next to a configured status nobody has.
C18_Witness ==
    /\ last.op = "bulk_attendance"
    /\ Len(last.args.status_dict) > 0
    /\ LastKey \in DOMAIN attendance_records
    /\ LastKey \in DOMAIN reports
    /\ LET day == attendance_records[LastKey]
           report == reports[LastKey]
       IN  /\ Configured(day, config) # DOMAIN day
           /\ Configured(day, config) # {}
           /\ \E s \in DOMAIN report.stats : report.stats[s] = 0
           /\ report.recorded_students = Cardinality(DOMAIN day)
           /\ SumOf(report.stats) < report.recorded_students


\* The step generates the report of date key d anew, and d has no records.
GeneratesEmpty(d) ==
    /\ \/ Step("bulk_attendance") /\ Len(last'.args.status_dict) > 0
       \/ Step("get_attendance_report") /\ d \notin DOMAIN reports
    /\ d = GetAttendanceDateKey(last'.args.date, clock)
    /\ d \notin DOMAIN attendance_records'

\* The report of a date without records: the date, the time of generation and
\* a message, and none of the figures.
IsMinimal(report, d, clk) ==
    /\ DOMAIN report = {"date", "generated_at", "message", "stats"}
    /\ report.date = d
    /\ report.generated_at = Now(clk)
    /\ report.message = "No records for this date"
    /\ report.stats = EmptyDict

\* C19: a report generated for a date without records is the minimal report
\* (date, time of generation, message, no figures) and is cached under the
\* date; while it is cached, a mark leaves it as it is, get_attendance_report
\* returns it unchanged, and only a bulk_attendance call with entries for
\* that date replaces it.
C19_MinimalReportCached ==
    [][/\ \A d \in DOMAIN reports' :
              GeneratesEmpty(d) =>
                  /\ IsMinimal(reports'[d], d, clock)
                  /\ Step("get_attendance_report") => last'.ret = reports'[d]
       /\ \A d \in DOMAIN reports :
              "message" \in DOMAIN reports[d] =>
                  /\ d \in DOMAIN reports'
                  /\ Step("mark_attendance") => reports'[d] = reports[d]
                  /\ (Step("get_attendance_report")
                        /\ d = GetAttendanceDateKey(last'.args.date, clock)) =>
                         /\ last'.ret = reports[d]
                         /\ reports'[d] = reports[d]
                  /\ reports'[d] # reports[d] =>
                         /\ Step("bulk_attendance")
                         /\ Len(last'.args.status_dict) > 0
                         /\ d = GetAttendanceDateKey(last'.args.date, clock)]_vars

\* get_attendance_report has returned the cached minimal report of a date
\* that has a record by now.
C19_Witness ==
    /\ last.op = "get_attendance_report"
    /\ LastKey \in DOMAIN attendance_records
    /\ attendance_records[LastKey] # EmptyDict
    /\ LastKey \in DOMAIN reports
    /\ last.ret = reports[LastKey]
    /\ DOMAIN last.ret = {"date", "generated_at", "message", "stats"}
    /\ last.ret.date = LastKey

\* A bulk_attendance call whose entries all failed has generated the minimal
\* report of a date without records.
C19_GeneratedWitness ==
    /\ last.op = "bulk_attendance"
    /\ Len(last.args.status_dict) > 0
    /\ LastKey \notin DOMAIN attendance_records
    /\ LastKey \in DOMAIN reports
    /\ IsMinimal(reports[LastKey], LastKey, clock)


\* The attendance table without the keys that strptime does not take.
ParsedKeysOnly(att) ==
    [date_key \in {k \in DOMAIN att : Strptime(k).ok} |-> att[date_key]]

\* C20: mark_attendance stores the record under the date string as given,
\* whether or not the string names a day, and succeeds or fails by the
\* student and the status alone; get_student_attendance_history for a known
\* student and start and end dates that are absent or parse returns a result,
\* never an error, the history holds no key that does not parse, and the
\* result is the one the table without those keys gives.
C20_UnparsedKeysSkipped ==
    [][/\ Step("mark_attendance") =>
              LET a == last'.args
              IN  /\ last'.ret = (/\ a.student_id \in DOMAIN students
                                  /\ a.status \in Elems(StatusOptions(config)))
                  /\ (last'.ret /\ a.date # None) =>
                         /\ a.date \in DOMAIN attendance_records'
                         /\ a.student_id \in DOMAIN attendance_records'[a.date]
                         /\ attendance_records'[a.date][a.student_id].status
                                = a.status
       /\ (/\ Step("get_student_attendance_history")
           /\ last'.args.student_id \in DOMAIN students
           /\ NoDate(last'.args.start_date) \/ Strptime(last'.args.start_date).ok
           /\ NoDate(last'.args.end_date) \/ Strptime(last'.args.end_date).ok) =>
              LET a == last'.args
              IN  /\ "exception" \notin DOMAIN last'.ret
                  /\ "error" \notin DOMAIN last'.ret
                  /\ \A k \in DOMAIN last'.ret.history : Strptime(k).ok
                  /\ last'.ret
                       = StudentAttendanceHistory(
                             students, ParsedKeysOnly(attendance_records),
                             config, a.student_id, a.start_date, a.end_date,
                             clock)]_vars

\* A history has been returned for a student that has a record under
\* 2025-02-30, a key that names no day and lies between the start and the end
\* as text; the history holds other records and not that one.
C20_Witness ==
    /\ last.op = "get_student_attendance_history"
    /\ D_0230 \in DOMAIN attendance_records
    /\ last.args.student_id \in DOMAIN attendance_records[D_0230]
    /\ "history" \in DOMAIN last.ret
    /\ last.ret.history # EmptyDict
    /\ D_0230 \notin DOMAIN last.ret.history
    /\ StrLess(last.ret.start_date, D_0230)
    /\ StrLess(D_0230, last.ret.end_date)


\* The reports of the cache that carry figures.
WithFigures == {d \in DOMAIN reports : "message" \notin DOMAIN reports[d]}

\* C21: in every state every student id of an attendance record is an id of
\* the students table, and every report that carries figures has
\* recorded_students <= total_students, missing_records >= 0 and an
\* attendance_rate from 0 to 100 (in hundredths, 0 to 10000).
C21_RecordsOfKnownStudents ==
    /\ \A d \in DOMAIN attendance_records :
           DOMAIN attendance_records[d] \subseteq DOMAIN students
    /\ \A d \in WithFigures :
           /\ reports[d].recorded_students <= reports[d].total_students
           /\ reports[d].missing_records >= 0
           /\ reports[d].attendance_rate >= 0
           /\ reports[d].attendance_rate <= 10000

\* A bulk_attendance call with an entry of an unknown student, listed as
\* failed, has generated a report in which every student is recorded.
C21_Witness ==
    /\ last.op = "bulk_attendance"
    /\ \E i \in DOMAIN last.args.status_dict :
          /\ last.args.status_dict[i].student_id \notin DOMAIN students
          /\ last.args.status_dict[i].student_id \in Elems(last.ret.failed)
    /\ Len(last.ret.success) > 0
    /\ LastKey \in WithFigures
    /\ reports[LastKey].recorded_students = reports[LastKey].total_students
    /\ reports[LastKey].recorded_students > 0
    /\ reports[LastKey].missing_records = 0


\* The students that have a record under the date key.
StudentIdsOf(att, d) == IF d \in DOMAIN att THEN DOMAIN att[d] ELSE {}

\* Every date key of the attendance table has a record.
NoEmptyDay ==
    \A d \in DOMAIN attendance_records : attendance_records[d] # EmptyDict

\* C22: every date key of the attendance table has at least one record,
\* before and after every step; a mark that is rejected, for the student or
\* for the status, leaves the table with the keys it had; and a report that
\* is generated carries figures exactly when the date has a record, of which
\* it then counts at least one.
C22_NoEmptyDateEntry ==
    [][/\ NoEmptyDay
       /\ NoEmptyDay'
       /\ (Step("mark_attendance") /\ ~ last'.ret) =>
              /\ attendance_records' = attendance_records
              /\ \/ last'.args.student_id \notin DOMAIN students
                 \/ last'.args.status \notin Elems(StatusOptions(config))
       /\ \A d \in DOMAIN reports' :
              (Generates(d) \/ GeneratesEmpty(d)) =>
                  /\ "message" \notin DOMAIN reports'[d]
                        <=> \E i \in StudentIdsOf(attendance_records', d) : TRUE
                  /\ "message" \notin DOMAIN reports'[d] =>
                         reports'[d].recorded_students >= 1]_vars

\* A mark on a date without an entry has been rejected, and the date has no
\* entry after it.
C22_Witness ==
    /\ last.op = "mark_attendance"
    /\ ~ last.ret
    /\ LastKey \notin DOMAIN attendance_records
    /\ attendance_records # EmptyDict

\* get_attendance_report has returned, for a date without an entry in a
\* table that has entries, the report of a date without records.
C22_ReportWitness ==
    /\ last.op = "get_attendance_report"
    /\ LastKey \notin DOMAIN attendance_records
    /\ "message" \in DOMAIN last.ret
    /\ attendance_records # EmptyDict

=============================================================================
